---- MODULE Spec2Model ----
(***************************************************************************)
(* Seat reservation core of the movie-booking service: the views of        *)
(* booking/views.py (AvailableSeatsView, BookShowView, CancelBookingView,  *)
(* MyBookingsView) over the Booking table of booking/models.py.            *)
(*                                                                         *)
(* Every request is handled by a worker thread.  A handler is cut into     *)
(* steps at its database statements; each statement is atomic, and other   *)
(* workers may run between two statements of one handler.  The store is    *)
(* a READ COMMITTED store with row locks: select_for_update() locks the    *)
(* rows the query returns and nothing when it returns no row; the rows     *)
(* stay locked until the transaction.atomic() block is left.               *)
(***************************************************************************)
EXTENDS Integers, Sequences, FiniteSets, TLC

\* ------------------------------------------------------------------------
\* Bounds of the model
\* ------------------------------------------------------------------------
MaxCalls == 3

Workers == {1, 2}
Users == {"u1", "u2"}
Anonymous == "anon"
Callers == Users \cup {Anonymous}

\* Show table: immutable catalogue rows; show 1 has two seats, show 2 one.
Show == <<[total_seats |-> 2], [total_seats |-> 1]>>
ShowIds == DOMAIN Show
ShowIdInputs == ShowIds \cup {3}
BookingIdInputs == 1 .. MaxCalls

\* ------------------------------------------------------------------------
\* Program constants
\* ------------------------------------------------------------------------
max_retries == 3
retry_delay_ms == 100
jitter_max_ms == 50
HTTP_200_OK == 200
HTTP_201_CREATED == 201
HTTP_400_BAD_REQUEST == 400
HTTP_401_UNAUTHORIZED == 401
HTTP_403_FORBIDDEN == 403
HTTP_404_NOT_FOUND == 404
HTTP_409_CONFLICT == 409
HTTP_500_INTERNAL_SERVER_ERROR == 500

VARIABLES
    bookings,     \* the Booking table, row i has primary key i
    held,         \* the rows each worker's open transaction has locked
    pc,           \* each worker's position in its handler
    req,          \* the request a worker is handling
    attempt,      \* BookShowView.post: loop variable of the retry loop
    retry_delay,  \* BookShowView.post: current backoff, in milliseconds
    slept,        \* BookShowView.post: milliseconds slept by the call so far
    out,          \* the response sent last: its number, request and body
    calls         \* requests accepted so far

vars == <<bookings, held, pc, req, attempt, retry_delay, slept, out, calls>>

\* ------------------------------------------------------------------------
\* request.data['seat_number'] as the parsers deliver it
\* ------------------------------------------------------------------------
\* kind "none": key absent (request.data.get returns None)
\* kind "int" : JSON integer val
\* kind "str" : decimal string of val (form data), int("2") = 2
\* kind "text": a non-numeric string
\* kind "inf" : JSON number beyond the float range (1e999), parsed as inf
RawSeats ==
    {[kind |-> "none", val |-> 0], [kind |-> "text", val |-> 0],
     [kind |-> "inf", val |-> 0], [kind |-> "str", val |-> 0]}
    \cup {[kind |-> "int", val |-> v] : v \in 0 .. 2}

NoSeat == [kind |-> "none", val |-> 0]

\* Python truthiness of the raw value: `not seat_number`
Falsy(raw) == raw.kind = "none" \/ (raw.kind = "int" /\ raw.val = 0)

\* int(seat_number): the value, or the exception it raises
IntConv(raw) ==
    CASE raw.kind \in {"int", "str"} -> [exc |-> "", val |-> raw.val]
      [] raw.kind = "none" -> [exc |-> "TypeError", val |-> 0]
      [] raw.kind = "text" -> [exc |-> "ValueError", val |-> 0]
      [] raw.kind = "inf" -> [exc |-> "OverflowError", val |-> 0]

\* ------------------------------------------------------------------------
\* Responses
\* ------------------------------------------------------------------------
NoBooking ==
    [id |-> 0, user |-> "", show |-> 0, seat_number |-> 0, status |-> "",
     created_at |-> 0]

Response(code, err) ==
    [status |-> code, error |-> err, booking |-> NoBooking, total_seats |-> 0,
     booked_seats |-> <<>>, available_seats |-> <<>>, available_count |-> 0,
     list |-> <<>>]

NoResp == Response(0, "")

\* A request: the view (op), request.user, the URL argument and the body.
\* taken is an observation kept for the properties, not read by any handler:
\* an active booking of the requested seat existed when the call began.
NoReq ==
    [op |-> "", user |-> Anonymous, show_id |-> 0, booking_id |-> 0,
     seat_number |-> NoSeat, taken |-> FALSE]

\* An active booking of seat raw of the show exists (observation only)
SeatTaken(show_id, raw) ==
    \E i \in 1 .. Len(bookings) :
      /\ bookings[i].show = show_id
      /\ raw.kind = "int"
      /\ bookings[i].seat_number = raw.val
      /\ bookings[i].status = "booked"

\* BookingSerializer(booking).data
BookingSerializer(i) ==
    [id |-> i, user |-> bookings[i].user, show |-> bookings[i].show,
     seat_number |-> bookings[i].seat_number, status |-> bookings[i].status,
     created_at |-> bookings[i].created_at]

\* ------------------------------------------------------------------------
\* Queries on the Booking table
\* ------------------------------------------------------------------------
Ids == 1 .. Len(bookings)

\* Variant: the filter forgets status="booked"
ActiveForAnyStatus(show, seat) ==
    {i \in Ids : bookings[i].show = show /\ bookings[i].seat_number = seat}

\* Booking.objects.filter(show=show, seat_number=seat_number, status="booked")
ActiveFor(show, seat) ==
    {i \in Ids : /\ bookings[i].show = show
                 /\ bookings[i].seat_number = seat
                 /\ bookings[i].status = "booked"}

\* ... filter(show, seat_number, user=request.user, status="booked")
ActiveForUser(show, seat, user) ==
    {i \in ActiveFor(show, seat) : bookings[i].user = user}

\* QuerySet.first(): the row with the least primary key
First(S) == CHOOSE i \in S : \A j \in S : i <= j

LockedByOther(w, i) == \E v \in Workers \ {w} : i \in held[v]

\* Variant: the filter forgets status="booked"
RECURSIVE ValuesListAnyStatus(_, _)
ValuesListAnyStatus(show, n) ==
    IF n = 0 THEN <<>>
    ELSE IF bookings[n].show = show
         THEN Append(ValuesListAnyStatus(show, n - 1), bookings[n].seat_number)
         ELSE ValuesListAnyStatus(show, n - 1)

\* Booking.objects.filter(show=show, status="booked")
\*        .values_list('seat_number', flat=True)
RECURSIVE ValuesList(_, _)
ValuesList(show, n) ==
    IF n = 0 THEN <<>>
    ELSE IF bookings[n].show = show /\ bookings[n].status = "booked"
         THEN Append(ValuesList(show, n - 1), bookings[n].seat_number)
         ELSE ValuesList(show, n - 1)

\* set(sequence)
ToSet(seq) == {seq[i] : i \in DOMAIN seq}

\* sorted(list(S))
RECURSIVE Sorted(_)
Sorted(S) ==
    IF S = {} THEN <<>>
    ELSE LET m == CHOOSE x \in S : \A y \in S : x <= y
         IN <<m>> \o Sorted(S \ {m})

\* Variant: the filter adds status="booked"
RECURSIVE MyListActiveOnly(_, _)
MyListActiveOnly(user, n) ==
    IF n = 0 THEN <<>>
    ELSE IF bookings[n].user = user /\ bookings[n].status = "booked"
         THEN Append(MyListActiveOnly(user, n - 1), BookingSerializer(n))
         ELSE MyListActiveOnly(user, n - 1)

\* Booking.objects.filter(user=request.user), serialized, in store order
RECURSIVE MyList(_, _)
MyList(user, n) ==
    IF n = 0 THEN <<>>
    ELSE IF bookings[n].user = user
         THEN Append(MyList(user, n - 1), BookingSerializer(n))
         ELSE MyList(user, n - 1)

\* ------------------------------------------------------------------------
\* Initial state: empty Booking table, every worker idle, nothing sent yet
\* ------------------------------------------------------------------------
NoOut == [n |-> 0, req |-> NoReq, resp |-> NoResp]

Init ==
    /\ bookings = <<>>
    /\ held = [w \in Workers |-> {}]
    /\ pc = [w \in Workers |-> "idle"]
    /\ req = [w \in Workers |-> NoReq]
    /\ attempt = [w \in Workers |-> 0]
    /\ retry_delay = [w \in Workers |-> 0]
    /\ slept = [w \in Workers |-> 0]
    /\ out = NoOut
    /\ calls = 0

\* The next request goes to the first idle worker
Accept(w) ==
    /\ pc[w] = "idle"
    /\ \A v \in Workers : v < w => pc[v] # "idle"
    /\ calls < MaxCalls
    /\ calls' = calls + 1

\* The handler returns response r to request q: the response goes out, the
\* handler's locals are gone and the worker is idle again
Return(w, q, r) ==
    /\ out' = [n |-> out.n + 1, req |-> q, resp |-> r]
    /\ pc' = [pc EXCEPT ![w] = "idle"]
    /\ req' = [req EXCEPT ![w] = NoReq]
    /\ attempt' = [attempt EXCEPT ![w] = 0]
    /\ retry_delay' = [retry_delay EXCEPT ![w] = 0]
    /\ slept' = [slept EXCEPT ![w] = 0]

\* The handler goes on to its next statement
Goto(w, label) == pc' = [pc EXCEPT ![w] = label]

\* ------------------------------------------------------------------------
\* AvailableSeatsView.get
\* ------------------------------------------------------------------------
\* Variant: all_seats = set(range(1, show.total_seats)), the last seat lost
AvailableSeatsDataShortRange(show_id) ==
    LET booked_seats == ToSet(ValuesList(show_id, Len(bookings)))
        all_seats == 1 .. Show[show_id].total_seats - 1
        available_seats == Sorted(all_seats \ booked_seats)
    IN [Response(HTTP_200_OK, "") EXCEPT
          !.total_seats = Show[show_id].total_seats,
          !.booked_seats = Sorted(booked_seats),
          !.available_seats = available_seats,
          !.available_count = Len(available_seats)]

\* Variant: available_count comes from a second query that counts the
\* show's rows of any status
AvailableSeatsDataCountsRows(show_id) ==
    LET booked_seats == ToSet(ValuesList(show_id, Len(bookings)))
        all_seats == 1 .. Show[show_id].total_seats
        available_seats == Sorted(all_seats \ booked_seats)
    IN [Response(HTTP_200_OK, "") EXCEPT
          !.total_seats = Show[show_id].total_seats,
          !.booked_seats = Sorted(booked_seats),
          !.available_seats = available_seats,
          !.available_count = Show[show_id].total_seats
                                - Cardinality({i \in Ids : bookings[i].show = show_id})]

\* Variant: the query leaves out the bookings of one user
AvailableSeatsDataExcludesUser(show_id) ==
    LET booked_seats == {bookings[i].seat_number :
                           i \in {j \in Ids : /\ bookings[j].show = show_id
                                              /\ bookings[j].status = "booked"
                                              /\ bookings[j].user # "u1"}}
        all_seats == 1 .. Show[show_id].total_seats
        available_seats == Sorted(all_seats \ booked_seats)
    IN [Response(HTTP_200_OK, "") EXCEPT
          !.total_seats = Show[show_id].total_seats,
          !.booked_seats = Sorted(booked_seats),
          !.available_seats = available_seats,
          !.available_count = Len(available_seats)]

AvailableSeatsData(show_id) ==
    LET booked_seats == ToSet(ValuesList(show_id, Len(bookings)))
        all_seats == 1 .. Show[show_id].total_seats
        available_seats == Sorted(all_seats \ booked_seats)
    IN [Response(HTTP_200_OK, "") EXCEPT
          !.total_seats = Show[show_id].total_seats,
          !.booked_seats = Sorted(booked_seats),
          !.available_seats = available_seats,
          !.available_count = Len(available_seats)]

AvailableSeatsGet(user, show_id) ==
    IF show_id \notin ShowIds
    THEN Response(HTTP_404_NOT_FOUND, "Not found")
    ELSE AvailableSeatsData(show_id)

\* Variant: the query runs with select_for_update() and the rows stay
\* locked
AvailableSeatsLocks(w) ==
    \E user \in Callers, show_id \in ShowIdInputs :
      /\ Accept(w)
      /\ Return(w, [NoReq EXCEPT !.op = "available", !.user = user,
                                 !.show_id = show_id],
                AvailableSeatsGet(user, show_id))
      /\ held' = [held EXCEPT ![w] = {i \in Ids : /\ bookings[i].show = show_id
                                                  /\ bookings[i].status = "booked"}]
      /\ UNCHANGED bookings

AvailableSeats(w) ==
    \E user \in Callers, show_id \in ShowIdInputs :
      /\ Accept(w)
      /\ Return(w, [NoReq EXCEPT !.op = "available", !.user = user,
                                 !.show_id = show_id],
                AvailableSeatsGet(user, show_id))
      /\ UNCHANGED <<bookings, held>>

\* ------------------------------------------------------------------------
\* BookShowView.post
\* ------------------------------------------------------------------------
\* Variant: seat_number is validated before the show is looked up
BookPrecheckValidateFirst(user, show_id, raw) ==
    IF user = Anonymous
    THEN Response(HTTP_401_UNAUTHORIZED, "Authentication credentials were not provided")
    ELSE IF Falsy(raw)
    THEN Response(HTTP_400_BAD_REQUEST, "seat_number is required")
    ELSE IF IntConv(raw).exc \in {"ValueError", "TypeError"}
    THEN Response(HTTP_400_BAD_REQUEST, "seat_number must be a valid integer")
    ELSE IF IntConv(raw).exc # ""
    THEN Response(HTTP_500_INTERNAL_SERVER_ERROR, IntConv(raw).exc)
    ELSE IF show_id \notin ShowIds
    THEN Response(HTTP_404_NOT_FOUND, "Not found")
    ELSE IF IntConv(raw).val < 1 \/ IntConv(raw).val > Show[show_id].total_seats
    THEN Response(HTTP_400_BAD_REQUEST, "Seat number must be between 1 and total_seats")
    ELSE NoResp

\* Variant: the range check has no upper limit
BookPrecheckNoUpperLimit(user, show_id, raw) ==
    IF user = Anonymous
    THEN Response(HTTP_401_UNAUTHORIZED, "Authentication credentials were not provided")
    ELSE IF show_id \notin ShowIds
    THEN Response(HTTP_404_NOT_FOUND, "Not found")
    ELSE IF Falsy(raw)
    THEN Response(HTTP_400_BAD_REQUEST, "seat_number is required")
    ELSE IF IntConv(raw).exc \in {"ValueError", "TypeError"}
    THEN Response(HTTP_400_BAD_REQUEST, "seat_number must be a valid integer")
    ELSE IF IntConv(raw).exc # ""
    THEN Response(HTTP_500_INTERNAL_SERVER_ERROR, IntConv(raw).exc)
    ELSE IF IntConv(raw).val < 1
    THEN Response(HTTP_400_BAD_REQUEST, "Seat number must be between 1 and total_seats")
    ELSE NoResp

\* The response of the checks that run before the retry loop, or NoResp when
\* the request passes them all
BookPrecheck(user, show_id, raw) ==
    IF user = Anonymous
    THEN Response(HTTP_401_UNAUTHORIZED, "Authentication credentials were not provided")
    ELSE IF show_id \notin ShowIds
    THEN Response(HTTP_404_NOT_FOUND, "Not found")
    ELSE IF Falsy(raw)
    THEN Response(HTTP_400_BAD_REQUEST, "seat_number is required")
    ELSE IF IntConv(raw).exc \in {"ValueError", "TypeError"}
    THEN Response(HTTP_400_BAD_REQUEST, "seat_number must be a valid integer")
    ELSE IF IntConv(raw).exc # ""
    THEN Response(HTTP_500_INTERNAL_SERVER_ERROR, IntConv(raw).exc)
    ELSE IF IntConv(raw).val < 1 \/ IntConv(raw).val > Show[show_id].total_seats
    THEN Response(HTTP_400_BAD_REQUEST, "Seat number must be between 1 and total_seats")
    ELSE NoResp

\* seat_number after int()
SeatOf(q) == IntConv(q.seat_number).val

BookShow(w) ==
    \E user \in Callers, show_id \in ShowIdInputs, raw \in RawSeats :
      LET q == [NoReq EXCEPT !.op = "book", !.user = user,
                             !.show_id = show_id, !.seat_number = raw,
                             !.taken = SeatTaken(show_id, raw)]
      IN /\ Accept(w)
         /\ IF BookPrecheck(user, show_id, raw) # NoResp
            THEN Return(w, q, BookPrecheck(user, show_id, raw))
            ELSE /\ Goto(w, "atomic")
                 /\ req' = [req EXCEPT ![w] = q]
                 /\ attempt' = [attempt EXCEPT ![w] = 0]
                 /\ retry_delay' = [retry_delay EXCEPT ![w] = retry_delay_ms]
                 /\ slept' = [slept EXCEPT ![w] = 0]
                 /\ UNCHANGED out
         /\ UNCHANGED <<bookings, held>>

\* Variant: the statement locks the show, so it waits while another
\* transaction holds any row of the same show
BookLockedReadShowLock(w) ==
    /\ pc[w] = "atomic"
    /\ \A v \in Workers \ {w} : \A i \in held[v] : bookings[i].show # req[w].show_id
    /\ LET m == ActiveFor(req[w].show_id, SeatOf(req[w]))
       IN IF m = {}
          THEN /\ Goto(w, "usercheck")
               /\ UNCHANGED held
          ELSE /\ ~LockedByOther(w, First(m))
               /\ held' = [held EXCEPT ![w] = {First(m)}]
               /\ Goto(w, "conflict")
    /\ UNCHANGED <<bookings, req, attempt, retry_delay, slept, out, calls>>

\* Variant: the locked read looks only at the bookings of other users
BookLockedReadOthers(w) ==
    /\ pc[w] = "atomic"
    /\ LET m == ActiveFor(req[w].show_id, SeatOf(req[w]))
                  \ ActiveForUser(req[w].show_id, SeatOf(req[w]), req[w].user)
       IN IF m = {}
          THEN /\ Goto(w, "usercheck")
               /\ UNCHANGED held
          ELSE /\ ~LockedByOther(w, First(m))
               /\ held' = [held EXCEPT ![w] = {First(m)}]
               /\ Goto(w, "conflict")
    /\ UNCHANGED <<bookings, req, attempt, retry_delay, slept, out, calls>>

\* with transaction.atomic(): select_for_update().filter(...).first()
\* The statement waits while another transaction holds the row it selects.
BookLockedRead(w) ==
    /\ pc[w] = "atomic"
    /\ LET m == ActiveFor(req[w].show_id, SeatOf(req[w]))
       IN IF m = {}
          THEN /\ Goto(w, "usercheck")
               /\ UNCHANGED held
          ELSE /\ ~LockedByOther(w, First(m))
               /\ held' = [held EXCEPT ![w] = {First(m)}]
               /\ Goto(w, "conflict")
    /\ UNCHANGED <<bookings, req, attempt, retry_delay, slept, out, calls>>

\* Variant: the 409 is returned with the row lock still held (the
\* transaction is left open)
BookConflictKeepsLock(w) ==
    /\ pc[w] = "conflict"
    /\ Return(w, req[w], Response(HTTP_409_CONFLICT, "Seat already booked"))
    /\ UNCHANGED <<bookings, held, calls>>

\* Variant: a found booking is treated like a transient failure and retried
BookConflictRetries(w) ==
    /\ pc[w] = "conflict"
    /\ held' = [held EXCEPT ![w] = {}]
    /\ IF attempt[w] < max_retries - 1
       THEN /\ slept' = [slept EXCEPT ![w] = @ + retry_delay[w]]
            /\ retry_delay' = [retry_delay EXCEPT ![w] = @ * 2]
            /\ attempt' = [attempt EXCEPT ![w] = @ + 1]
            /\ Goto(w, "atomic")
            /\ UNCHANGED <<req, out>>
       ELSE Return(w, req[w], Response(HTTP_409_CONFLICT, "Seat already booked"))
    /\ UNCHANGED <<bookings, calls>>

\* if existing_booking: return 409; leaving the atomic block frees the row
BookConflict(w) ==
    /\ pc[w] = "conflict"
    /\ held' = [held EXCEPT ![w] = {}]
    /\ Return(w, req[w], Response(HTTP_409_CONFLICT, "Seat already booked"))
    /\ UNCHANGED <<bookings, calls>>

\* the second, unlocked read: the caller's own active booking of the seat
BookUserCheck(w) ==
    /\ pc[w] = "usercheck"
    /\ IF ActiveForUser(req[w].show_id, SeatOf(req[w]), req[w].user) # {}
       THEN Return(w, req[w], Response(HTTP_400_BAD_REQUEST,
                                       "You already have a booking for this seat"))
       ELSE /\ Goto(w, "create")
            /\ UNCHANGED <<req, attempt, retry_delay, slept, out>>
    /\ UNCHANGED <<bookings, held, calls>>

\* Variant: the seat is stored as a zero-based index
NewBookingZeroBased(q) ==
    [user |-> q.user, show |-> q.show_id, seat_number |-> SeatOf(q) - 1,
     status |-> "booked", created_at |-> Len(bookings) + 1]

\* the row Booking.objects.create(...) inserts; auto_now_add stamps it with
\* the time of the insert, counted in rows inserted so far
NewBooking(q) ==
    [user |-> q.user, show |-> q.show_id, seat_number |-> SeatOf(q),
     status |-> "booked", created_at |-> Len(bookings) + 1]

\* Variant: a cancelled booking of the same user and seat is set back to
\* "booked" (update_or_create) instead of inserting a row
BookCreateReactivates(w) ==
    /\ pc[w] = "create"
    /\ LET old == {i \in Ids : /\ bookings[i].user = req[w].user
                               /\ bookings[i].show = req[w].show_id
                               /\ bookings[i].seat_number = SeatOf(req[w])}
           id == IF old = {} THEN Len(bookings) + 1 ELSE First(old)
       IN /\ bookings' = IF old = {}
                         THEN Append(bookings, NewBooking(req[w]))
                         ELSE [bookings EXCEPT ![id].status = "booked"]
          /\ Return(w, req[w],
                    [Response(HTTP_201_CREATED, "") EXCEPT
                       !.booking = [id |-> id,
                                    user |-> bookings'[id].user,
                                    show |-> bookings'[id].show,
                                    seat_number |-> bookings'[id].seat_number,
                                    status |-> bookings'[id].status,
                                    created_at |-> bookings'[id].created_at]])
    /\ UNCHANGED <<held, calls>>

\* Booking.objects.create(...), serialize, return 201 (commit)
BookCreate(w) ==
    /\ pc[w] = "create"
    /\ bookings' = Append(bookings, NewBooking(req[w]))
    /\ Return(w, req[w],
              [Response(HTTP_201_CREATED, "") EXCEPT
                 !.booking = [id |-> Len(bookings) + 1,
                              user |-> NewBooking(req[w]).user,
                              show |-> NewBooking(req[w]).show,
                              seat_number |-> NewBooking(req[w]).seat_number,
                              status |-> NewBooking(req[w]).status,
                              created_at |-> NewBooking(req[w]).created_at]])
    /\ UNCHANGED <<held, calls>>

\* except IntegrityError: the store refuses the insert, the transaction is
\* rolled back; sleep and retry while attempts are left, else 409
Jitters == {0, jitter_max_ms}

\* Variant: retry_delay *= 3
BookIntegrityErrorTriples(w) ==
    /\ pc[w] = "create"
    /\ IF attempt[w] < max_retries - 1
       THEN \E jitter \in Jitters :
              /\ slept' = [slept EXCEPT ![w] = @ + retry_delay[w] + jitter]
              /\ retry_delay' = [retry_delay EXCEPT ![w] = @ * 3]
              /\ attempt' = [attempt EXCEPT ![w] = @ + 1]
              /\ Goto(w, "atomic")
              /\ UNCHANGED <<req, out>>
       ELSE Return(w, req[w],
                   Response(HTTP_409_CONFLICT,
                            "Booking failed due to concurrent access. Please try again."))
    /\ UNCHANGED <<bookings, held, calls>>

\* Variant: the retry test reads attempt < max_retries
BookIntegrityErrorExtraAttempt(w) ==
    /\ pc[w] = "create"
    /\ IF attempt[w] < max_retries
       THEN \E jitter \in Jitters :
              /\ slept' = [slept EXCEPT ![w] = @ + retry_delay[w] + jitter]
              /\ retry_delay' = [retry_delay EXCEPT ![w] = @ * 2]
              /\ attempt' = [attempt EXCEPT ![w] = @ + 1]
              /\ Goto(w, "atomic")
              /\ UNCHANGED <<req, out>>
       ELSE Return(w, req[w],
                   Response(HTTP_409_CONFLICT,
                            "Booking failed due to concurrent access. Please try again."))
    /\ UNCHANGED <<bookings, held, calls>>

BookIntegrityError(w) ==
    /\ pc[w] = "create"
    /\ IF attempt[w] < max_retries - 1
       THEN \E jitter \in Jitters :
              /\ slept' = [slept EXCEPT ![w] = @ + retry_delay[w] + jitter]
              /\ retry_delay' = [retry_delay EXCEPT ![w] = @ * 2]
              /\ attempt' = [attempt EXCEPT ![w] = @ + 1]
              /\ Goto(w, "atomic")
              /\ UNCHANGED <<req, out>>
       ELSE Return(w, req[w],
                   Response(HTTP_409_CONFLICT,
                            "Booking failed due to concurrent access. Please try again."))
    /\ UNCHANGED <<bookings, held, calls>>

\* ------------------------------------------------------------------------
\* CancelBookingView.post
\* ------------------------------------------------------------------------
\* Variant: the state check runs before the ownership check
CancelPrecheckStateFirst(user, booking_id) ==
    IF user = Anonymous
    THEN Response(HTTP_401_UNAUTHORIZED, "Authentication credentials were not provided")
    ELSE IF booking_id \notin Ids
    THEN Response(HTTP_500_INTERNAL_SERVER_ERROR,
                  "An unexpected error occurred during cancellation")
    ELSE IF bookings[booking_id].status = "cancelled"
    THEN Response(HTTP_400_BAD_REQUEST, "Booking is already cancelled")
    ELSE IF bookings[booking_id].user # user
    THEN Response(HTTP_403_FORBIDDEN, "You cannot cancel someone else's booking")
    ELSE NoResp

\* Variant: the state check is missing
CancelPrecheckNoStateCheck(user, booking_id) ==
    IF user = Anonymous
    THEN Response(HTTP_401_UNAUTHORIZED, "Authentication credentials were not provided")
    ELSE IF booking_id \notin Ids
    THEN Response(HTTP_500_INTERNAL_SERVER_ERROR,
                  "An unexpected error occurred during cancellation")
    ELSE IF bookings[booking_id].user # user
    THEN Response(HTTP_403_FORBIDDEN, "You cannot cancel someone else's booking")
    ELSE NoResp

\* The response of the statements before booking.save(), or NoResp when the
\* request reaches the save.  get_object_or_404 raises Http404 inside the
\* try block, and `except Exception` turns it into the 500 response.
CancelPrecheck(user, booking_id) ==
    IF user = Anonymous
    THEN Response(HTTP_401_UNAUTHORIZED, "Authentication credentials were not provided")
    ELSE IF booking_id \notin Ids
    THEN Response(HTTP_500_INTERNAL_SERVER_ERROR,
                  "An unexpected error occurred during cancellation")
    ELSE IF bookings[booking_id].user # user
    THEN Response(HTTP_403_FORBIDDEN, "You cannot cancel someone else's booking")
    ELSE IF bookings[booking_id].status = "cancelled"
    THEN Response(HTTP_400_BAD_REQUEST, "Booking is already cancelled")
    ELSE NoResp

CancelBooking(w) ==
    \E user \in Callers, booking_id \in BookingIdInputs :
      LET q == [NoReq EXCEPT !.op = "cancel", !.user = user,
                             !.booking_id = booking_id]
      IN /\ Accept(w)
         /\ IF CancelPrecheck(user, booking_id) # NoResp
            THEN Return(w, q, CancelPrecheck(user, booking_id))
            ELSE /\ Goto(w, "save")
                 /\ req' = [req EXCEPT ![w] = q]
                 /\ UNCHANGED <<attempt, retry_delay, slept, out>>
         /\ UNCHANGED <<bookings, held>>

\* Variant: created_at is declared auto_now, so save() stamps it again
CancelSaveStampsAgain(w) ==
    /\ pc[w] = "save"
    /\ ~LockedByOther(w, req[w].booking_id)
    /\ bookings' = [bookings EXCEPT ![req[w].booking_id].status = "cancelled",
                                    ![req[w].booking_id].created_at = Len(bookings) + 1]
    /\ Return(w, req[w],
              [Response(HTTP_200_OK, "Booking cancelled successfully") EXCEPT
                 !.booking = [BookingSerializer(req[w].booking_id) EXCEPT
                                !.status = "cancelled",
                                !.created_at = Len(bookings) + 1]])
    /\ UNCHANGED <<held, calls>>

\* booking.status = "cancelled"; booking.save(); return 200
\* The UPDATE waits while another transaction holds the row.
CancelSave(w) ==
    /\ pc[w] = "save"
    /\ ~LockedByOther(w, req[w].booking_id)
    /\ bookings' = [bookings EXCEPT ![req[w].booking_id].status = "cancelled"]
    /\ Return(w, req[w],
              [Response(HTTP_200_OK, "Booking cancelled successfully") EXCEPT
                 !.booking = [BookingSerializer(req[w].booking_id) EXCEPT
                                !.status = "cancelled"]])
    /\ UNCHANGED <<held, calls>>

\* ------------------------------------------------------------------------
\* MyBookingsView.get
\* ------------------------------------------------------------------------
\* Variant: permission_classes = [AllowAny]
MyBookingsGetAllowAny(user) ==
    [Response(HTTP_200_OK, "") EXCEPT !.list = MyList(user, Len(bookings))]

MyBookingsGet(user) ==
    IF user = Anonymous
    THEN Response(HTTP_401_UNAUTHORIZED, "Authentication credentials were not provided")
    ELSE [Response(HTTP_200_OK, "") EXCEPT !.list = MyList(user, Len(bookings))]

MyBookings(w) ==
    \E user \in Callers :
      /\ Accept(w)
      /\ Return(w, [NoReq EXCEPT !.op = "my", !.user = user], MyBookingsGet(user))
      /\ UNCHANGED <<bookings, held>>

\* ------------------------------------------------------------------------
\* Specifications
\* ------------------------------------------------------------------------
\* The store never refuses an insert: the Booking table carries no
\* constraint (Booking.Meta) and shows and users are never removed.
Next ==
    \E w \in Workers :
      \/ AvailableSeats(w)
      \/ BookShow(w)
      \/ BookLockedRead(w)
      \/ BookConflict(w)
      \/ BookUserCheck(w)
      \/ BookCreate(w)
      \/ CancelBooking(w)
      \/ CancelSave(w)
      \/ MyBookings(w)

Spec == Init /\ [][Next]_vars

\* The store may refuse any insert with IntegrityError.
NextFault == Next \/ \E w \in Workers : BookIntegrityError(w)

SpecFault == Init /\ [][NextFault]_vars

\* ------------------------------------------------------------------------
\* Two BookSeat calls by different callers for one free seat, both past the
\* checks that precede the retry loop, over a store of at most one earlier
\* booking; no other request arrives.
\* ------------------------------------------------------------------------
RaceRows ==
    {[user |-> u, show |-> s, seat_number |-> n, status |-> st, created_at |-> 1] :
       u \in Users, s \in ShowIds, n \in 1 .. 2, st \in {"booked", "cancelled"}}

RaceStores ==
    {<<>>} \cup {<<r>> : r \in {x \in RaceRows : x.seat_number <= Show[x.show].total_seats}}

InitRace ==
    /\ bookings \in RaceStores
    /\ \E s \in ShowIds, u \in Users :
         \E n \in 1 .. Show[s].total_seats :
           /\ \A i \in 1 .. Len(bookings) :
                ~(/\ bookings[i].show = s
                  /\ bookings[i].seat_number = n
                  /\ bookings[i].status = "booked")
           /\ req = [w \in Workers |->
                       [NoReq EXCEPT !.op = "book",
                                     !.user = IF w = 1 THEN u ELSE CHOOSE v \in Users : v # u,
                                     !.show_id = s,
                                     !.seat_number = [kind |-> "int", val |-> n]]]
    /\ held = [w \in Workers |-> {}]
    /\ pc = [w \in Workers |-> "atomic"]
    /\ attempt = [w \in Workers |-> 0]
    /\ retry_delay = [w \in Workers |-> retry_delay_ms]
    /\ slept = [w \in Workers |-> 0]
    /\ out = NoOut
    /\ calls = Cardinality(Workers)

NextRace ==
    \E w \in Workers :
      \/ BookLockedRead(w)
      \/ BookConflict(w)
      \/ BookUserCheck(w)
      \/ BookCreate(w)

SpecRace == InitRace /\ [][NextRace]_vars

\* ------------------------------------------------------------------------
\* Two BookSeat calls for one seat, by any two callers, both past the checks
\* that precede the retry loop, over a store of at most one earlier booking;
\* the store may refuse any insert with IntegrityError, and no other request
\* arrives.
\* ------------------------------------------------------------------------
InitRetry ==
    /\ bookings \in RaceStores
    /\ \E s \in ShowIds, u \in Users, v \in Users :
         \E n \in 1 .. Show[s].total_seats :
           req = [w \in Workers |->
                    [NoReq EXCEPT !.op = "book",
                                  !.user = IF w = 1 THEN u ELSE v,
                                  !.show_id = s,
                                  !.seat_number = [kind |-> "int", val |-> n],
                                  !.taken = SeatTaken(s, [kind |-> "int", val |-> n])]]
    /\ held = [w \in Workers |-> {}]
    /\ pc = [w \in Workers |-> "atomic"]
    /\ attempt = [w \in Workers |-> 0]
    /\ retry_delay = [w \in Workers |-> retry_delay_ms]
    /\ slept = [w \in Workers |-> 0]
    /\ out = NoOut
    /\ calls = Cardinality(Workers)

NextRetry ==
    \E w \in Workers :
      \/ BookLockedRead(w)
      \/ BookConflict(w)
      \/ BookUserCheck(w)
      \/ BookCreate(w)
      \/ BookIntegrityError(w)

SpecRetry == InitRetry /\ [][NextRetry]_vars

\* ------------------------------------------------------------------------
\* Two calls in progress over a store of at most one earlier booking: a
\* BookSeat call inside the retry loop, and beside it either a second
\* BookSeat call, for any seat, or the owner's CancelReservation of the
\* stored booking, past its checks.  The store may refuse any insert with
\* IntegrityError, and no other request arrives.  The callers being
\* interchangeable, the first call is u1's.  Each request is served by
\* its own thread: a handler that can take a step takes it (sleeps end, the
\* database grants a free row lock).
\* ------------------------------------------------------------------------
LiveReqs ==
    {[NoReq EXCEPT !.op = "book", !.user = u, !.show_id = s,
                   !.seat_number = [kind |-> "int", val |-> n],
                   !.taken = SeatTaken(s, [kind |-> "int", val |-> n])] :
       u \in Users, s \in ShowIds, n \in 1 .. 2}
    \cup {[NoReq EXCEPT !.op = "cancel", !.user = u, !.booking_id = 1] : u \in Users}

LiveReqOk(q) ==
    IF q.op = "book"
    THEN q.seat_number.val <= Show[q.show_id].total_seats
    ELSE /\ Len(bookings) = 1
         /\ bookings[1].user = q.user
         /\ bookings[1].status = "booked"

InitLive ==
    /\ bookings \in RaceStores
    /\ req \in [Workers -> LiveReqs]
    /\ req[1].op = "book"
    /\ req[1].user = "u1"
    /\ \A w \in Workers : LiveReqOk(req[w])
    /\ held = [w \in Workers |-> {}]
    /\ pc = [w \in Workers |-> IF req[w].op = "book" THEN "atomic" ELSE "save"]
    /\ attempt = [w \in Workers |-> 0]
    /\ retry_delay = [w \in Workers |-> retry_delay_ms]
    /\ slept = [w \in Workers |-> 0]
    /\ out = NoOut
    /\ calls = Cardinality(Workers)

\* The steps of the handler that worker w runs
Step(w) ==
    \/ BookLockedRead(w)
    \/ BookConflict(w)
    \/ BookUserCheck(w)
    \/ BookCreate(w)
    \/ BookIntegrityError(w)
    \/ CancelSave(w)

NextLive == \E w \in Workers : Step(w)

SpecLive == InitLive /\ [][NextLive]_vars /\ \A w \in Workers : WF_vars(Step(w))

\* ------------------------------------------------------------------------
\* Vocabulary of the properties
\* ------------------------------------------------------------------------
\* The reservations in state Active on seat n of show s
ActiveIds(s, n) ==
    {i \in 1 .. Len(bookings) : /\ bookings[i].show = s
                                /\ bookings[i].seat_number = n
                                /\ bookings[i].status = "booked"}

\* The reservations in state Released on seat n of show s
ReleasedIds(s, n) ==
    {i \in 1 .. Len(bookings) : /\ bookings[i].show = s
                                /\ bookings[i].seat_number = n
                                /\ bookings[i].status = "cancelled"}

Range(seq) == {seq[i] : i \in 1 .. Len(seq)}

Ascending(seq) == \A i \in 1 .. Len(seq) : \A j \in 1 .. Len(seq) : i < j => seq[i] < seq[j]

\* The worker that takes the next request, and the step in which it does
Acceptor ==
    CHOOSE w \in Workers : pc[w] = "idle" /\ \A v \in Workers : v < w => pc[v] # "idle"

Accepted == calls' = calls + 1

\* The request taken in this step, and its handler answering in the same step
StartedReq == IF pc'[Acceptor] = "idle" THEN out'.req ELSE req'[Acceptor]

AnsweredAtOnce == pc'[Acceptor] = "idle" /\ out'.n = out.n + 1

\* Worker w leaves its handler in this step
Returns(w) == pc[w] # "idle" /\ pc'[w] = "idle"

\* No request but the one of worker w is being handled
Alone(w) == \A v \in Workers \ {w} : pc[v] = "idle"

StoreUnchanged == bookings' = bookings /\ held' = held

\* seat_number is missing, not an integer, below 1 or above the show's capacity
InvalidSeat(raw, show_id) ==
    \/ raw.kind \in {"none", "text", "inf"}
    \/ raw.val < 1
    \/ raw.val > Show[show_id].total_seats

\* ------------------------------------------------------------------------
\* Properties
\* ------------------------------------------------------------------------
\* C1: in every reachable state, each (show, seat_number) has at most one
\* reservation in state Active.
MutualExclusion ==
    \A s \in ShowIds : \A n \in 1 .. Show[s].total_seats :
      Cardinality(ActiveIds(s, n)) <= 1

\* C2: of two concurrent BookSeat calls by different callers for one free
\* seat, exactly one returns 201 and the other 409.  Checked under SpecRace
\* at the step in which the second of the two calls returns: the response
\* sent before it is the one of the first call.
RaceExactlyOne ==
    [][((\E w \in Workers : pc[w] # "idle") /\ (\A w \in Workers : pc'[w] = "idle"))
         => {out.resp.status, out'.resp.status} = {HTTP_201_CREATED, HTTP_409_CONFLICT}]_vars

\* C3 as stated: a BookSeat call that began while the seat had an Active
\* reservation is answered 409 'Seat already booked'.
TakenAtStartConflicts ==
    (out.req.op = "book" /\ out.req.user \in Users /\ out.req.taken)
      => (out.resp.status = HTTP_409_CONFLICT /\ out.resp.error = "Seat already booked")

\* C3 as amended: a BookSeat call whose locked read runs while the seat has
\* an Active reservation is answered 409 'Seat already booked', whoever the
\* caller is, and the call creates and changes no record.
FoundActiveConflicts ==
    [][\A w \in Workers :
         /\ (/\ pc[w] = "atomic"
             /\ pc'[w] # "atomic"
             /\ ActiveIds(req[w].show_id, req[w].seat_number.val) # {})
              => (pc'[w] = "conflict" /\ bookings' = bookings)
         /\ (pc[w] = "conflict" /\ pc'[w] # "conflict")
              => /\ Returns(w)
                 /\ out'.req = req[w]
                 /\ out'.resp.status = HTTP_409_CONFLICT
                 /\ out'.resp.error = "Seat already booked"
                 /\ out'.resp.booking = NoBooking
                 /\ bookings' = bookings]_vars

\* C3 witness: the owner of the Active reservation resubmitted the request
\* and got 409.
OwnerResubmitConflicts ==
    /\ out.req.op = "book"
    /\ out.resp.status = HTTP_409_CONFLICT
    /\ out.resp.error = "Seat already booked"
    /\ \E i \in ActiveIds(out.req.show_id, out.req.seat_number.val) :
         bookings[i].user = out.req.user

\* C4: BookSeat by an authenticated caller on an existing show with an
\* invalid seat_number is answered 400 in the step that takes the request
\* (before any transaction), and neither the table nor any lock changes.
InvalidSeatRejected ==
    [][(/\ Accepted
        /\ StartedReq.op = "book"
        /\ StartedReq.user \in Users
        /\ StartedReq.show_id \in ShowIds
        /\ InvalidSeat(StartedReq.seat_number, StartedReq.show_id))
         => (/\ AnsweredAtOnce
             /\ out'.resp.status = HTTP_400_BAD_REQUEST
             /\ StoreUnchanged)]_vars

\* C5: a BookSeat call for a seat whose reservations are all Released, with
\* no other request in progress, passes the checks, inserts a new Active
\* record under a new identifier and is answered 201; the Released records
\* stay as they are.
RebookAfterRelease ==
    [][/\ (/\ Accepted
           /\ StartedReq.op = "book"
           /\ StartedReq.user \in Users
           /\ StartedReq.show_id \in ShowIds
           /\ StartedReq.seat_number.kind = "int"
           /\ ~InvalidSeat(StartedReq.seat_number, StartedReq.show_id))
            => pc'[Acceptor] = "atomic"
       /\ \A w \in Workers :
            (/\ req[w].op = "book"
             /\ Alone(w)
             /\ pc'[w] # pc[w]
             /\ ReleasedIds(req[w].show_id, req[w].seat_number.val) # {}
             /\ ActiveIds(req[w].show_id, req[w].seat_number.val) = {})
              => /\ pc[w] = "atomic" => (pc'[w] = "usercheck" /\ bookings' = bookings)
                 /\ pc[w] = "usercheck" => (pc'[w] = "create" /\ bookings' = bookings)
                 /\ pc[w] = "create"
                      => /\ Returns(w)
                         /\ out'.resp.status = HTTP_201_CREATED
                         /\ out'.resp.booking.id = Len(bookings) + 1
                         /\ Len(bookings') = Len(bookings) + 1
                         /\ \A i \in 1 .. Len(bookings) : bookings'[i] = bookings[i]
                         /\ bookings'[Len(bookings) + 1].status = "booked"
                         /\ bookings'[Len(bookings) + 1].user = req[w].user
                         /\ bookings'[Len(bookings) + 1].show = req[w].show_id
                         /\ bookings'[Len(bookings) + 1].seat_number
                              = req[w].seat_number.val]_vars

\* C5 witness: a seat released by its owner has been booked again by another
\* caller, under a later identifier, and the released record is still there.
RebookedByOther ==
    /\ out.req.op = "book"
    /\ out.resp.status = HTTP_201_CREATED
    /\ out.resp.booking.id = Len(bookings)
    /\ bookings[Len(bookings)].status = "booked"
    /\ \E i \in ReleasedIds(out.req.show_id, out.req.seat_number.val) :
         i < out.resp.booking.id /\ bookings[i].user # out.req.user
    /\ Cardinality(ActiveIds(out.req.show_id, out.req.seat_number.val)) = 1

\* C6: every GetAvailability result of an existing show is consistent:
\* available_count + |booked_seats| = total_seats, the two lists are
\* disjoint, together they are 1..total_seats, and available_count is the
\* length of available_seats.
AvailabilityConsistent ==
    (out.req.op = "available" /\ out.req.show_id \in ShowIds)
      => /\ out.resp.status = HTTP_200_OK
         /\ out.resp.total_seats = Show[out.req.show_id].total_seats
         /\ out.resp.available_count + Len(out.resp.booked_seats)
              = out.resp.total_seats
         /\ Range(out.resp.available_seats) \cap Range(out.resp.booked_seats) = {}
         /\ Range(out.resp.available_seats) \cup Range(out.resp.booked_seats)
              = 1 .. out.resp.total_seats
         /\ out.resp.available_count = Len(out.resp.available_seats)

\* C6 witness: an availability result with a booked and an available seat
AvailabilityMixed ==
    /\ out.req.op = "available"
    /\ out.resp.status = HTTP_200_OK
    /\ out.resp.booked_seats # <<>>
    /\ out.resp.available_seats # <<>>

\* C7: GetAvailability lists as booked exactly the seats with an Active
\* reservation on that show, each once, and as available the other seats of
\* 1..total_seats, both ascending.  (The table changes only in steps that
\* send a response, so the table of the state is the one the call read.)
AvailabilityExact ==
    (out.req.op = "available" /\ out.req.show_id \in ShowIds)
      => /\ Range(out.resp.booked_seats)
              = {n \in 1 .. Show[out.req.show_id].total_seats :
                   ActiveIds(out.req.show_id, n) # {}}
         /\ Range(out.resp.available_seats)
              = {n \in 1 .. Show[out.req.show_id].total_seats :
                   ActiveIds(out.req.show_id, n) = {}}
         /\ Ascending(out.resp.booked_seats)
         /\ Ascending(out.resp.available_seats)

\* C7 witness: a seat whose only reservation is Released is listed as
\* available and not as booked
AvailabilityIgnoresReleased ==
    /\ out.req.op = "available"
    /\ out.req.show_id \in ShowIds
    /\ \E n \in Range(out.resp.available_seats) :
         /\ ReleasedIds(out.req.show_id, n) # {}
         /\ n \notin Range(out.resp.booked_seats)

\* C8: CancelReservation by an authenticated caller who does not own the
\* reservation is answered 403, Active or Released alike, and changes nothing.
CancelByOtherForbidden ==
    [][(/\ Accepted
        /\ StartedReq.op = "cancel"
        /\ StartedReq.user \in Users
        /\ StartedReq.booking_id \in 1 .. Len(bookings)
        /\ bookings[StartedReq.booking_id].user # StartedReq.user)
         => (/\ AnsweredAtOnce
             /\ out'.resp.status = HTTP_403_FORBIDDEN
             /\ out'.resp.booking = NoBooking
             /\ StoreUnchanged)]_vars

\* C8 witness: a caller was refused the cancellation of another caller's
\* Released reservation
ForbiddenOnReleased ==
    /\ out.req.op = "cancel"
    /\ out.resp.status = HTTP_403_FORBIDDEN
    /\ out.req.booking_id \in 1 .. Len(bookings)
    /\ bookings[out.req.booking_id].status = "cancelled"
    /\ bookings[out.req.booking_id].user # out.req.user

\* C9: CancelReservation by the owner of a reservation that is Released when
\* the call begins is answered 400 'already cancelled' and changes nothing.
CancelReleasedRejected ==
    [][(/\ Accepted
        /\ StartedReq.op = "cancel"
        /\ StartedReq.booking_id \in 1 .. Len(bookings)
        /\ bookings[StartedReq.booking_id].user = StartedReq.user
        /\ bookings[StartedReq.booking_id].status = "cancelled")
         => (/\ AnsweredAtOnce
             /\ out'.resp.status = HTTP_400_BAD_REQUEST
             /\ out'.resp.error = "Booking is already cancelled"
             /\ StoreUnchanged)]_vars

\* C9 witness: the owner was told that the reservation is already cancelled
OwnerToldAlreadyCancelled ==
    /\ out.req.op = "cancel"
    /\ out.resp.status = HTTP_400_BAD_REQUEST
    /\ out.req.booking_id \in 1 .. Len(bookings)
    /\ bookings[out.req.booking_id].status = "cancelled"
    /\ bookings[out.req.booking_id].user = out.req.user

\* C10: CancelReservation by an authenticated caller with an identifier of
\* no record is answered 404, and changes nothing.
CancelUnknownNotFound ==
    [][(/\ Accepted
        /\ StartedReq.op = "cancel"
        /\ StartedReq.user \in Users
        /\ StartedReq.booking_id \notin 1 .. Len(bookings))
         => (/\ AnsweredAtOnce
             /\ out'.resp.status = HTTP_404_NOT_FOUND
             /\ StoreUnchanged)]_vars

\* The reservation record i as a caller is shown it
Shown(store, i) ==
    [id |-> i, user |-> store[i].user, show |-> store[i].show,
     seat_number |-> store[i].seat_number, status |-> store[i].status,
     created_at |-> store[i].created_at]

\* C11: a CancelReservation that succeeds leaves its record Released,
\* with owner, show, seat number and creation time as they were, returns
\* the record as it now is, changes no other record, and neither creates
\* nor removes a record.
CancelOnlyReleases ==
    [][\A w \in Workers :
         (req[w].op = "cancel" /\ Returns(w) /\ out'.resp.status = HTTP_200_OK)
           => (/\ out'.req = req[w]
               /\ req[w].booking_id \in 1 .. Len(bookings)
               /\ bookings[req[w].booking_id].user = req[w].user
               /\ Len(bookings') = Len(bookings)
               /\ \A i \in 1 .. Len(bookings) :
                    IF i = req[w].booking_id
                    THEN bookings'[i] = [bookings[i] EXCEPT !.status = "cancelled"]
                    ELSE bookings'[i] = bookings[i]
               /\ out'.resp.booking = Shown(bookings', req[w].booking_id))]_vars

\* C11 witness: a reservation was cancelled with success while another
\* reservation of the store stayed Active
CancelledBesideActive ==
    /\ out.req.op = "cancel"
    /\ out.resp.status = HTTP_200_OK
    /\ out.resp.booking.status = "cancelled"
    /\ bookings[out.req.booking_id].status = "cancelled"
    /\ \E j \in 1 .. Len(bookings) :
         j # out.req.booking_id /\ bookings[j].status = "booked"

\* C12: a BookSeat that succeeds appends exactly one record, Active, owned
\* by the caller, for the requested show and seat, returns that record and
\* changes no record that existed; the store grows in no other step.
BookAddsOneRecord ==
    [][/\ \A w \in Workers :
            (req[w].op = "book" /\ Returns(w) /\ out'.resp.status = HTTP_201_CREATED)
              => (/\ out'.req = req[w]
                  /\ Len(bookings') = Len(bookings) + 1
                  /\ \A i \in 1 .. Len(bookings) : bookings'[i] = bookings[i]
                  /\ bookings'[Len(bookings')].status = "booked"
                  /\ bookings'[Len(bookings')].user = req[w].user
                  /\ bookings'[Len(bookings')].show = req[w].show_id
                  /\ req[w].seat_number.kind = "int"
                  /\ bookings'[Len(bookings')].seat_number = req[w].seat_number.val
                  /\ out'.resp.booking = Shown(bookings', Len(bookings')))
       /\ Len(bookings') # Len(bookings)
            => \E w \in Workers : /\ req[w].op = "book"
                                  /\ Returns(w)
                                  /\ out'.resp.status = HTTP_201_CREATED]_vars

\* C12 witness: a reservation was booked into a store that already held
\* a record, and the caller got the new record
BookedIntoNonEmptyStore ==
    /\ out.req.op = "book"
    /\ out.resp.status = HTTP_201_CREATED
    /\ Len(bookings) >= 2
    /\ out.resp.booking.id = Len(bookings)
    /\ out.resp.booking.user = out.req.user
    /\ out.resp.booking.status = "booked"

\* C13: ListMyReservations of an authenticated caller is answered with
\* exactly the caller's records, Active and Released, each once and as
\* stored, and changes nothing.
ListExactlyMine ==
    [][(/\ Accepted
        /\ StartedReq.op = "my"
        /\ StartedReq.user \in Users)
         => (/\ AnsweredAtOnce
             /\ out'.resp.status = HTTP_200_OK
             /\ Range(out'.resp.list) =
                  {Shown(bookings, i) : i \in {j \in 1 .. Len(bookings) :
                                                 bookings[j].user = StartedReq.user}}
             /\ Len(out'.resp.list) = Cardinality(Range(out'.resp.list))
             /\ StoreUnchanged)]_vars

\* C13 witness: a caller was listed a Released reservation of their own
ListedReleased ==
    /\ out.req.op = "my"
    /\ out.resp.status = HTTP_200_OK
    /\ \E k \in 1 .. Len(out.resp.list) :
         /\ out.resp.list[k].status = "cancelled"
         /\ out.resp.list[k].user = out.req.user

\* C14: GetAvailability by anyone, and BookSeat by an authenticated
\* caller, on a show identifier of no show are answered 404 whatever the
\* seat_number, and change nothing.
UnknownShowNotFound ==
    [][(/\ Accepted
        /\ StartedReq.show_id \notin DOMAIN Show
        /\ \/ StartedReq.op = "available"
           \/ StartedReq.op = "book" /\ StartedReq.user \in Users)
         => (/\ AnsweredAtOnce
             /\ out'.resp.status = HTTP_404_NOT_FOUND
             /\ StoreUnchanged)]_vars

\* C14 witness: a BookSeat without seat_number on an unknown show was
\* answered 404
UnknownShowBeatsMissingSeat ==
    /\ out.req.op = "book"
    /\ out.req.show_id \notin DOMAIN Show
    /\ out.req.seat_number.kind = "none"
    /\ out.resp.status = HTTP_404_NOT_FOUND

\* C15: BookSeat, CancelReservation and ListMyReservations without an
\* authenticated caller are answered 401 at once, with no record and no
\* list in the answer, and change nothing; GetAvailability of an existing
\* show without an identity is answered 200.
UnauthenticatedRejected ==
    [][(Accepted /\ StartedReq.user \notin Users)
         => (/\ AnsweredAtOnce
             /\ StoreUnchanged
             /\ StartedReq.op \in {"book", "cancel", "my"}
                  => (/\ out'.resp.status = HTTP_401_UNAUTHORIZED
                      /\ out'.resp.booking = NoBooking
                      /\ out'.resp.list = <<>>)
             /\ (StartedReq.op = "available" /\ StartedReq.show_id \in DOMAIN Show)
                  => out'.resp.status = HTTP_200_OK)]_vars

\* C15 witness: a CancelReservation without identity on an Active
\* reservation was answered 401 and the reservation is still Active
AnonymousCancelRejected ==
    /\ out.req.op = "cancel"
    /\ out.req.user \notin Users
    /\ out.resp.status = HTTP_401_UNAUTHORIZED
    /\ out.req.booking_id \in 1 .. Len(bookings)
    /\ bookings[out.req.booking_id].status = "booked"

\* C16: a CancelReservation answers success only in the step that takes
\* its record from Active to Released, so of the owner's calls on one
\* Active reservation one succeeds and no second one reports success.
CancelSucceedsOnce ==
    [][\A w \in Workers :
         (req[w].op = "cancel" /\ Returns(w) /\ out'.resp.status = HTTP_200_OK)
           => bookings[req[w].booking_id].status = "booked"]_vars

\* C17: a record that is Released stays Released; a step changes an
\* existing record only from Active to Released, and removes none.
ReleasedIsTerminal ==
    [][/\ Len(bookings') >= Len(bookings)
       /\ \A i \in 1 .. Len(bookings) :
            \/ bookings'[i] = bookings[i]
            \/ /\ bookings[i].status = "booked"
               /\ bookings'[i] = [bookings[i] EXCEPT !.status = "cancelled"]]_vars

\* C17 witness: the owner of a Released reservation booked the same seat
\* again; the old record is still Released beside the new Active one
ReleasedBesideOwnRebooking ==
    \E i \in 1 .. Len(bookings) : \E j \in 1 .. Len(bookings) :
        /\ i < j
        /\ bookings[i].status = "cancelled"
        /\ bookings[j].status = "booked"
        /\ bookings[j].user = bookings[i].user
        /\ bookings[j].show = bookings[i].show
        /\ bookings[j].seat_number = bookings[i].seat_number

\* C18: every record of the store, Active or Released, has a seat number
\* from 1 to the capacity of its show.
SeatWithinCapacity ==
    \A i \in 1 .. Len(bookings) :
        /\ bookings[i].show \in DOMAIN Show
        /\ 1 <= bookings[i].seat_number
        /\ bookings[i].seat_number <= Show[bookings[i].show].total_seats

\* C18 witness: the last seat of a show is reserved, and a request for
\* the seat after it was refused
LastSeatReserved ==
    /\ \E i \in 1 .. Len(bookings) :
         bookings[i].seat_number = Show[bookings[i].show].total_seats
    /\ out.req.op = "book"
    /\ out.req.show_id \in DOMAIN Show
    /\ out.req.seat_number.kind = "int"
    /\ out.req.seat_number.val = Show[out.req.show_id].total_seats + 1
    /\ out.resp.status = HTTP_400_BAD_REQUEST

\* C19: a BookSeat call is never in a fourth attempt.  When its insert
\* fails on the first or second attempt nothing is stored, no answer is
\* sent, and the call goes on with the locked read of its next attempt;
\* when it fails on the third attempt the call is answered 409 'Booking
\* failed due to concurrent access', without a record, and nothing is
\* stored.
RetryBudget ==
    [][\A w \in Workers :
         /\ attempt'[w] < 3
         /\ (pc[w] = "create" /\ pc'[w] # "create" /\ Len(bookings') = Len(bookings))
              => /\ bookings' = bookings
                 /\ IF attempt[w] < 2
                    THEN /\ pc'[w] = "atomic"
                         /\ attempt'[w] = attempt[w] + 1
                         /\ req'[w] = req[w]
                         /\ out' = out
                    ELSE /\ Returns(w)
                         /\ out'.req = req[w]
                         /\ out'.resp.status = HTTP_409_CONFLICT
                         /\ out'.resp.error =
                              "Booking failed due to concurrent access. Please try again."
                         /\ out'.resp.booking = NoBooking]_vars

\* C19 witness: a call was answered 409 'concurrent access' after its
\* third insert failed, and the store holds no record
RetryBudgetExhausted ==
    /\ out.req.op = "book"
    /\ out.resp.status = HTTP_409_CONFLICT
    /\ out.resp.error = "Booking failed due to concurrent access. Please try again."
    /\ bookings = <<>>

\* C20: the attempt whose locked read finds an Active reservation of the
\* seat goes to the 409 'Seat already booked' answer without a new attempt
\* and without sleeping, and the next step of the call is that answer,
\* on the first attempt as on a later one.
ConflictNotRetried ==
    [][\A w \in Workers :
         /\ (/\ pc[w] = "atomic"
             /\ pc'[w] # "atomic"
             /\ ActiveIds(req[w].show_id, req[w].seat_number.val) # {})
              => (/\ pc'[w] = "conflict"
                  /\ attempt'[w] = attempt[w]
                  /\ slept'[w] = slept[w])
         /\ (/\ pc[w] = "conflict"
             /\ \/ pc'[w] # "conflict"
                \/ attempt'[w] # attempt[w]
                \/ slept'[w] # slept[w])
              => (/\ Returns(w)
                  /\ out'.req = req[w]
                  /\ out'.resp.status = HTTP_409_CONFLICT
                  /\ out'.resp.error = "Seat already booked")]_vars

\* C20 witness: after an insert of the call failed and it slept, a later
\* attempt's locked read found the seat reserved
ConflictAfterTransientFailure ==
    \E w \in Workers :
        /\ pc[w] = "conflict"
        /\ attempt[w] > 0
        /\ slept[w] > 0
        /\ ActiveIds(req[w].show_id, req[w].seat_number.val) # {}

\* C21: under fair scheduling every BookSeat call in progress is
\* eventually answered, whatever the other call does: it does not wait on
\* the seat lock forever and the retry loop does not end without an
\* answer; the answer is one response, 201 with the record or 400, 404,
\* 409 or 500 without one.
BookAlwaysAnswered ==
    /\ \A w \in Workers : (req[w].op = "book" /\ pc[w] # "idle") ~> (pc[w] = "idle")
    /\ [][\A w \in Workers :
            (req[w].op = "book" /\ Returns(w))
              => (/\ out'.n = out.n + 1
                  /\ out'.req = req[w]
                  /\ out'.resp.status \in {HTTP_201_CREATED, HTTP_400_BAD_REQUEST,
                                            HTTP_404_NOT_FOUND, HTTP_409_CONFLICT,
                                            HTTP_500_INTERNAL_SERVER_ERROR}
                  /\ (out'.resp.status = HTTP_201_CREATED)
                       = (out'.resp.booking # NoBooking))]_vars

\* C21 witness: a BookSeat call waits for the lock that another call
\* holds on the Active reservation of its seat
WaitsOnSeatLock ==
    \E w \in Workers : \E v \in Workers \ {w} :
        /\ req[w].op = "book"
        /\ pc[w] = "atomic"
        /\ held[v] \cap ActiveIds(req[w].show_id, req[w].seat_number.val) # {}

\* C22: each sleep of a BookSeat call lasts the base delay of its retry,
\* 100 ms before the first retry and doubled for each further one, plus a
\* jitter from 0 to 50 ms; the time a call has slept in all is at most
\* 100+200+400 ms plus 50 ms for each sleep.
BackoffSchedule ==
    [][\A w \in Workers :
         /\ (slept'[w] # slept[w] /\ pc'[w] # "idle")
              => (/\ attempt[w] \in 0 .. 2
                  /\ attempt'[w] = attempt[w] + 1
                  /\ slept'[w] - slept[w] - 100 * 2^attempt[w] \in 0 .. 50)
         /\ slept'[w] <= 100 + 200 + 400 + 50 * attempt'[w]]_vars

\* C22 witness: a call has slept before its first and before its second
\* retry
SleptTwice ==
    \E w \in Workers : attempt[w] = 2 /\ slept[w] >= 100 + 200

\* C23: a BookSeat attempt at its locked read can take it whenever no
\* other call holds the lock of an Active reservation of the same show and
\* seat, whatever locks are held on other seats and other shows.
SeatLockGranularity ==
    \A w \in Workers :
        (/\ req[w].op = "book"
         /\ pc[w] = "atomic"
         /\ \A v \in Workers \ {w} :
              held[v] \cap ActiveIds(req[w].show_id, req[w].seat_number.val) = {})
          => ENABLED BookLockedRead(w)

\* C23 witness: a BookSeat attempt is at its locked read while another
\* call holds the lock of a reservation of another seat of the same show
OtherSeatLocked ==
    \E w \in Workers : \E v \in Workers \ {w} :
        /\ req[w].op = "book"
        /\ pc[w] = "atomic"
        /\ held[v] # {}
        /\ \A i \in held[v] : /\ bookings[i].show = req[w].show_id
                               /\ bookings[i].seat_number # req[w].seat_number.val

\* C24: no BookSeat call is answered 400 'You already have a booking for
\* this seat'.
DuplicateRejectionUnreachable ==
    ~(/\ out.req.op = "book"
      /\ out.resp.status = HTTP_400_BAD_REQUEST
      /\ out.resp.error = "You already have a booking for this seat")

\* The seats of show s with an Active reservation in the store
SeatsTaken(s) == {n \in 1 .. Show[s].total_seats : ActiveIds(s, n) # {}}

\* C25: a GetAvailability of an existing show is answered from the store
\* of the step in which it reads: booked_seats, available_seats and
\* available_count all describe that one store, also while another call is
\* in progress.
AvailabilityOneSnapshot ==
    [][(/\ Accepted
        /\ StartedReq.op = "available"
        /\ StartedReq.show_id \in DOMAIN Show)
         => (/\ AnsweredAtOnce
             /\ bookings' = bookings
             /\ Range(out'.resp.booked_seats) = SeatsTaken(StartedReq.show_id)
             /\ Len(out'.resp.booked_seats) = Cardinality(SeatsTaken(StartedReq.show_id))
             /\ Range(out'.resp.available_seats)
                  = (1 .. Show[StartedReq.show_id].total_seats) \ SeatsTaken(StartedReq.show_id)
             /\ Len(out'.resp.available_seats) = out'.resp.available_count
             /\ out'.resp.available_count
                  = Show[StartedReq.show_id].total_seats
                      - Cardinality(SeatsTaken(StartedReq.show_id)))]_vars

\* C25 witness: availability was answered while a BookSeat call was about
\* to insert a reservation for a seat of that show, listed as available
AvailabilityBesideInsert ==
    /\ out.req.op = "available"
    /\ out.resp.status = HTTP_200_OK
    /\ \E v \in Workers :
         /\ pc[v] = "create"
         /\ req[v].show_id = out.req.show_id
         /\ req[v].seat_number.val \in Range(out.resp.available_seats)

\* What the store tells without its owners
Triples == {<<bookings[i].show, bookings[i].seat_number, bookings[i].status>> :
              i \in 1 .. Len(bookings)}

\* The members of a set of numbers in ascending order
InOrder(S) ==
    CHOOSE seq \in [1 .. Cardinality(S) -> S] : Range(seq) = S /\ Ascending(seq)

\* C26: the answer of GetAvailability for an existing show is determined
\* by the (show, seat_number, state) triples of the store alone, so two
\* stores with the same triples and different owners get the same answer;
\* the answer carries no record and no list of records.
AvailabilityFromTriples ==
    [][(/\ Accepted
        /\ StartedReq.op = "available"
        /\ StartedReq.show_id \in DOMAIN Show)
         => LET s == StartedReq.show_id
                all == 1 .. Show[s].total_seats
                taken == {n \in all : <<s, n, "booked">> \in Triples}
            IN out'.resp = [status |-> HTTP_200_OK,
                            error |-> "",
                            booking |-> NoBooking,
                            total_seats |-> Show[s].total_seats,
                            booked_seats |-> InOrder(taken),
                            available_seats |-> InOrder(all \ taken),
                            available_count |-> Cardinality(all \ taken),
                            list |-> <<>>]]_vars

\* C26 witness: availability was answered for a show with Active
\* reservations of two different callers
AvailabilityOverTwoOwners ==
    /\ out.req.op = "available"
    /\ out.resp.status = HTTP_200_OK
    /\ \E i \in 1 .. Len(bookings) : \E j \in 1 .. Len(bookings) :
         /\ bookings[i].user # bookings[j].user
         /\ bookings[i].show = out.req.show_id
         /\ bookings[j].show = out.req.show_id
         /\ bookings[i].status = "booked"
         /\ bookings[j].status = "booked"
         /\ {bookings[i].seat_number, bookings[j].seat_number}
              \subseteq Range(out.resp.booked_seats)

\* C27: the step of a GetAvailability call changes no record and no lock,
\* and leaves every call in progress where it was, with all its locals.
AvailabilityPureRead ==
    [][(Accepted /\ StartedReq.op = "available")
         => (/\ AnsweredAtOnce
             /\ bookings' = bookings
             /\ held' = held
             /\ \A v \in Workers \ {Acceptor} :
                  /\ pc'[v] = pc[v]
                  /\ req'[v] = req[v]
                  /\ attempt'[v] = attempt[v]
                  /\ retry_delay'[v] = retry_delay[v]
                  /\ slept'[v] = slept[v])]_vars

\* C27 witness: availability of a show was answered while a BookSeat call
\* held the lock of a reservation of that show
AvailabilityBesideLockHolder ==
    /\ out.req.op = "available"
    /\ out.resp.status = HTTP_200_OK
    /\ \E v \in Workers :
         /\ pc[v] = "conflict"
         /\ held[v] # {}
         /\ req[v].show_id = out.req.show_id

TypeOK ==
    /\ calls \in 0 .. MaxCalls
    /\ Len(bookings) <= MaxCalls
    /\ \A w \in Workers :
         pc[w] \in {"idle", "atomic", "conflict", "usercheck", "create", "save"}
====
